---------------------------- MODULE Spec2Model ----------------------------
(***************************************************************************)
(* Model of src-tauri/src/main.rs: the bootstrap of the desktop shell.     *)
(*                                                                         *)
(* main() builds a tauri::Builder, registers the shell plugin and a setup  *)
(* closure, then calls run(..).expect(..).  The setup closure looks up the *)
(* webview window "main"; when it exists it parses the hard-coded URL,     *)
(* sets the window title to "" and navigates the window to the URL, each   *)
(* step guarded by `?`.                                                    *)
(*                                                                         *)
(* Strings that are only compared are TLA+ strings.  URL text is a         *)
(* sequence of characters so that Url::parse can be modelled by what it    *)
(* does to the characters.  A character is a one-character string; a C0    *)
(* control that a TLA+ string cannot hold is the string naming its code    *)
(* point, "U+0001" for U+0001 (see C0_NAMED).                              *)
(***************************************************************************)
EXTENDS Naturals, Sequences, FiniteSets, TLC

VARIABLES
    urlLiteral,   \* the string literal compiled in at main.rs:12
    confWindows,  \* labels of the windows the host configuration declares
    defaultTitle, \* title the host configuration gives those windows
    pc,           \* position of the process in main / the host / the closure
    step,         \* index of the next statement of the `if let` body
    phase,        \* lifecycle phase of the application
    plugins,      \* plugins registered on the builder
    setupSet,     \* whether a setup closure is registered on the builder
    open,         \* labels of the windows that currently exist
    title,        \* label -> current window title
    content,      \* label -> serialisation of the URL the webview shows
    url,          \* the closure's local `url` (a Url, or NoUrl before line 12)
    calls,        \* the calls the closure has made, in order
    setupCalls,   \* number of times the closure body has been entered
    setupResult,  \* what the closure returned: "none", "ok" or the error
    runCalls,     \* number of times Builder::run has been called
    runResult,    \* what Builder::run returned: "none", "ok", "err"
    exit,         \* how the process ended: "none", "ok", "panic"
    diag          \* the panic message printed, "" when none

vars == <<urlLiteral, confWindows, defaultTitle, pc, step, phase, plugins,
          setupSet, open, title, content, url, calls, setupCalls,
          setupResult, runCalls, runResult, exit, diag>>

-----------------------------------------------------------------------------
(* Program constants *)

\* main.rs:11  the label handed to get_webview_window
MAIN_LABEL == "main"

\* main.rs:12  "https://sya-os.vercel.app"
APP_URL ==
    <<"h","t","t","p","s",":","/","/","s","y","a","-","o","s",".",
      "v","e","r","c","e","l",".","a","p","p">>

\* main.rs:13  the title handed to set_title
EMPTY_TITLE == ""

\* main.rs:21  the message handed to expect
EXPECT_MSG == "error while running tauri application"

\* message of the host's own panic when the closure returns Err
SETUP_PANIC_MSG == "Failed to setup app"

\* main.rs:9  the plugin registered on the builder
SHELL_PLUGIN == "shell"

-----------------------------------------------------------------------------
(* Url::parse and Url::as_str (url 2.5, host parsing through idna 1.x), for *)
(* the part of the URL grammar the enumerated literals use: surrounding     *)
(* white space, scheme, domain host, plain path.  InModelledGrammar below   *)
(* states that part exactly; Init draws the literal from it.  Outside it    *)
(* (userinfo, port, IP hosts, punycode labels, percent-escapes, dot         *)
(* segments, the file scheme, hierarchical non-special URLs) the parser has *)
(* steps these definitions do not have.                                     *)

UPPER == <<"A","B","C","D","E","F","G","H","I","J","K","L","M",
           "N","O","P","Q","R","S","T","U","V","W","X","Y","Z">>
LOWER == <<"a","b","c","d","e","f","g","h","i","j","k","l","m",
           "n","o","p","q","r","s","t","u","v","w","x","y","z">>
DIGIT == {"0","1","2","3","4","5","6","7","8","9"}

Range(s) == { s[i] : i \in DOMAIN s }

IsAlpha(c) == c \in Range(UPPER) \cup Range(LOWER)

ToLowerChar(c) ==
    IF c \in Range(UPPER)
    THEN LOWER[CHOOSE i \in DOMAIN UPPER : UPPER[i] = c]
    ELSE c

ToLower(s) == [i \in DOMAIN s |-> ToLowerChar(s[i])]

\* index of the first character of s that is in set cs, Len(s)+1 when none
FirstIn(s, cs) ==
    IF \E i \in DOMAIN s : s[i] \in cs
    THEN CHOOSE i \in DOMAIN s : s[i] \in cs /\ \A j \in 1..(i-1) : s[j] \notin cs
    ELSE Len(s) + 1

\* s without its leading characters that are in set cs
RECURSIVE SkipLeading(_, _)
SkipLeading(s, cs) ==
    IF s # <<>> /\ Head(s) \in cs THEN SkipLeading(Tail(s), cs) ELSE s

\* a scheme is an ASCII letter followed by letters, digits, "+", "-", "."
IsScheme(s) ==
    /\ s # <<>>
    /\ IsAlpha(s[1])
    /\ \A i \in DOMAIN s : IsAlpha(s[i]) \/ s[i] \in DIGIT \cup {"+","-","."}

SPECIAL_SCHEMES ==
    { <<"h","t","t","p">>, <<"h","t","t","p","s">>,
      <<"w","s">>, <<"w","s","s">>, <<"f","t","p">> }

\* s without its trailing characters that are in set cs
RECURSIVE SkipTrailing(_, _)
SkipTrailing(s, cs) ==
    IF s # <<>> /\ s[Len(s)] \in cs
    THEN SkipTrailing(SubSeq(s, 1, Len(s) - 1), cs)
    ELSE s

\* the C0 controls written by code point: U+0000..U+001F without U+0009
\* ("\t"), U+000A ("\n"), U+000C ("\f") and U+000D ("\r")
C0_NAMED ==
    { "U+0000", "U+0001", "U+0002", "U+0003", "U+0004", "U+0005",
      "U+0006", "U+0007", "U+0008", "U+000B", "U+000E", "U+000F",
      "U+0010", "U+0011", "U+0012", "U+0013", "U+0014", "U+0015",
      "U+0016", "U+0017", "U+0018", "U+0019", "U+001A", "U+001B",
      "U+001C", "U+001D", "U+001E", "U+001F" }

\* every character <= U+0020: the C0 controls and the space
C0_OR_SPACE == C0_NAMED \cup {"\t", "\n", "\f", "\r", " "}

\* tab and newlines, which the parser skips wherever they stand
TAB_OR_NEWLINE == {"\t", "\n", "\r"}

IsNotTabOrNewline(c) == c \notin TAB_OR_NEWLINE

\* the input without its leading and trailing characters <= U+0020, and
\* without the tabs and newlines inside it
Trim(s) ==
    SelectSeq(SkipTrailing(SkipLeading(s, C0_OR_SPACE), C0_OR_SPACE),
              IsNotTabOrNewline)

\* code points the domain-to-ASCII step rejects (those the literals can
\* exercise; a "%" that starts no escape is among them)
FORBIDDEN_HOST == {" ", "\f", "<", ">", "[", "]", "^", "|", "%"}

NoUrl == [ok |-> FALSE, err |-> "none", text |-> <<>>]
UrlOk(text) == [ok |-> TRUE, err |-> "none", text |-> text]
UrlErr(e) == [ok |-> FALSE, err |-> e, text |-> <<>>]

\* the remainder of a special URL after "scheme:"
ParseSpecial(scheme, rest) ==
    LET r    == SkipLeading(rest, {"/", "\\"})
        cut  == FirstIn(r, {"/", "\\", "?", "#"})
        host == SubSeq(r, 1, cut - 1)
        tl   == SubSeq(r, cut, Len(r))
        path == IF tl = <<>> THEN <<"/">>
                ELSE IF Head(tl) \in {"?", "#"} THEN <<"/">> \o tl
                ELSE <<"/">> \o Tail(tl)
    IN  IF host = <<>> THEN UrlErr("EmptyHost")
        ELSE IF host[1] = "[" /\ host[Len(host)] # "]"
             THEN UrlErr("InvalidIpv6Address")
        ELSE IF \E i \in DOMAIN host : host[i] \in FORBIDDEN_HOST
             THEN UrlErr("IdnaError")
        ELSE UrlOk(scheme \o <<":","/","/">> \o ToLower(host) \o path)

\* Url::parse(s), the result carrying the text Url::as_str returns
UrlParseIdentity(s) ==
    IF FirstIn(s, {":"}) > Len(s) \/ ~IsScheme(SubSeq(s, 1, FirstIn(s, {":"}) - 1))
    THEN UrlErr("RelativeUrlWithoutBase")
    ELSE UrlOk(s)

UrlParse(s) ==
    LET t      == Trim(s)
        colon  == FirstIn(t, {":"})
        scheme == ToLower(SubSeq(t, 1, colon - 1))
        rest   == SubSeq(t, colon + 1, Len(t))
    IN  IF colon > Len(t) \/ ~IsScheme(scheme)
        THEN UrlErr("RelativeUrlWithoutBase")
        ELSE IF scheme \in SPECIAL_SCHEMES
             THEN ParseSpecial(scheme, rest)
        ELSE UrlOk(scheme \o <<":">> \o rest)

IsPrefixOf(p, s) == Len(p) <= Len(s) /\ SubSeq(s, 1, Len(p)) = p

\* the labels of a host: its maximal runs of characters other than "."
RECURSIVE HostLabels(_)
HostLabels(h) ==
    LET dot == FirstIn(h, {"."}) IN
    IF dot > Len(h) THEN <<h>>
    ELSE <<SubSeq(h, 1, dot - 1)>> \o HostLabels(SubSeq(h, dot + 1, Len(h)))

IsAlnum(c) == IsAlpha(c) \/ c \in DIGIT

\* a host the definitions above parse as the code does: a domain of
\* non-empty labels, none a punycode label, the last not a number; or one
\* with a forbidden code point, or an unclosed "["
HostInGrammar(h) ==
    /\ \A i \in DOMAIN h :
          IsAlnum(h[i]) \/ h[i] \in {"-", "."} \cup (FORBIDDEN_HOST \ {"%"})
    /\ h # <<>> => h[1] # "[" \/ h[Len(h)] # "]"
    /\ LET ls == HostLabels(h) IN
        /\ \A i \in DOMAIN ls :
            /\ ls[i] # <<>>
            /\ ~IsPrefixOf(<<"x","n","-","-">>, ToLower(ls[i]))
        /\ ls[Len(ls)] # <<>> => ls[Len(ls)][1] \notin DIGIT

\* the same, for an input of characters of ALPHABET only
InModelledGrammarTrimmed(s) ==
    LET t      == Trim(s)
        colon  == FirstIn(t, {":"})
        scheme == ToLower(SubSeq(t, 1, colon - 1))
        rest   == SubSeq(t, colon + 1, Len(t))
        r      == SkipLeading(rest, {"/"})
        cut    == FirstIn(r, {"/"})
    IN  \/ colon > Len(t)
        \/ ~IsScheme(scheme)
        \/ /\ scheme \in SPECIAL_SCHEMES
           /\ r # <<>> => HostInGrammar(SubSeq(r, 1, cut - 1))
           /\ \A i \in cut..Len(r) : IsAlnum(r[i]) \/ r[i] \in {"/", "-"}
        \/ /\ scheme \notin SPECIAL_SCHEMES \cup {<<"f","i","l","e">>}
           /\ \A i \in DOMAIN rest : IsAlnum(rest[i])

\* the characters the definitions above give a meaning to
ALPHABET ==
    Range(UPPER) \cup Range(LOWER) \cup DIGIT \cup C0_OR_SPACE
        \cup {":", "/", ".", "-", "+", "<", ">", "[", "]", "^", "|"}

\* the inputs on which UrlParse is the code's Url::parse
InModelledGrammar(s) ==
    /\ \A i \in DOMAIN s : s[i] \in ALPHABET
    /\ InModelledGrammarTrimmed(s)

-----------------------------------------------------------------------------
(* The configurations and builds the model ranges over *)

\* literals a build can carry at main.rs:12: the shipped one, and the
\* substitutions of a test build (well-formed and malformed)
UrlLiterals ==
    { APP_URL,
      APP_URL \o <<"/">>,
      <<"H","T","T","P","S",":","/","/","S","y","a",".","a","p","p","/","x">>,
      <<"h","t","t","p","s",":","s","y","a",".","a","p","p">>,
      <<"a","b","o","u","t",":","b","l","a","n","k">>,
      <<"s","y","a","-","o","s",".","v","e","r","c","e","l",".","a","p","p">>,
      <<"h","t","t","p","s",":","/","/">>,
      <<"h","t","t","p","s",":","/","/","s","y","a"," ","o","s">>,
      <<" ","h","t","t","p","s",":","/","/","s","y","a",".","a","p","p"," ">>,
      <<"\t","h","t","t","p","s"," ">>,
      <<"U+0001">> \o APP_URL \o <<"U+001F","\n">>,
      <<"h","t","t","p","s",":","/","/","[","a","b">>,
      <<>> }

\* window labels a host configuration can declare
Labels == {"main", "Main", "splash"}

\* titles a host configuration can give its windows
DefaultTitles == {"", "syaOS", "Tauri App"}

\* what a freshly created webview shows
DEFAULT_CONTENT == <<"t","a","u","r","i",":","/","/","l","o","c","a","l","h","o","s","t">>

-----------------------------------------------------------------------------
(* The closure's statements, main.rs:11-16 *)

\* the statements of the `if let` body, in source order (main.rs:12-14)
SetupOrderTitleFirst == <<"set_title", "parse", "navigate">>

SetupOrder == <<"parse", "set_title", "navigate">>

\* app.get_webview_window(label): the window with exactly that label
GetWebviewWindowAnyCase(wins, label) ==
    IF label \in wins THEN {label}
    ELSE IF label = "main" /\ "Main" \in wins THEN {"Main"}
    ELSE {}

GetWebviewWindow(wins, label) == IF label \in wins THEN {label} ELSE {}

\* the `?` operator after statement i: go on to i+1 on Ok, return (0) on Err
QuestionSwallow(i, ok) == i + 1

QuestionRetry(i, ok) == IF ok THEN i + 1 ELSE i

Question(i, ok) == IF ok THEN i + 1 ELSE 0

\* window.set_title(t) when it succeeds
SetTitleKeep(titles, w, t) == titles

SetTitle(titles, w, t) == [titles EXCEPT ![w] = t]

\* window.navigate(u) when it succeeds: the webview shows u
Navigate(contents, w, u) == [contents EXCEPT ![w] = u.text]

Call(op, ok, target) == [op |-> op, ok |-> ok, target |-> target]

\* .expect(msg) on the result of run, then the end of main (main.rs:21-22):
\* where the process goes, "dead" (panic) on Err, "done" (main returns) on Ok
ExpectIgnore(r) == "done"

ExpectRestart(r) == "configured"

Expect(r) == IF r = "err" THEN "dead" ELSE "done"

-----------------------------------------------------------------------------
Init ==
    /\ urlLiteral \in { l \in UrlLiterals : InModelledGrammar(l) }
    /\ confWindows \in SUBSET Labels
    /\ defaultTitle \in DefaultTitles
    /\ pc = "main"
    /\ step = 0
    /\ phase = "Uninitialized"
    /\ plugins = {}
    /\ setupSet = FALSE
    /\ open = {}
    /\ title = [w \in {} |-> ""]
    /\ content = [w \in {} |-> <<>>]
    /\ url = NoUrl
    /\ calls = <<>>
    /\ setupCalls = 0
    /\ setupResult = "none"
    /\ runCalls = 0
    /\ runResult = "none"
    /\ exit = "none"
    /\ diag = ""

build == <<urlLiteral, confWindows, defaultTitle>>
host == <<open, title, content>>
closure == <<step, url, calls, setupCalls, setupResult>>
process == <<runCalls, runResult, exit, diag>>

\* main.rs:8  tauri::Builder::default()
BuilderDefault ==
    /\ pc = "main"
    /\ pc' = "default"
    /\ UNCHANGED <<build, host, closure, process, phase, plugins, setupSet>>

\* main.rs:9  .plugin(tauri_plugin_shell::init())
Plugin ==
    /\ pc = "default"
    /\ plugins' = plugins \cup {SHELL_PLUGIN}
    /\ pc' = "plugin"
    /\ UNCHANGED <<build, host, closure, process, phase, setupSet>>

\* main.rs:10-17  .setup(|app| ..): the closure is stored, not run
RegisterSetup ==
    /\ pc = "plugin"
    /\ setupSet' = TRUE
    /\ phase' = "Configured"
    /\ pc' = "configured"
    /\ UNCHANGED <<build, host, closure, process, plugins>>

\* main.rs:19-20  builder.run(context): control passes to the host
RunCall ==
    /\ pc = "configured"
    /\ runCalls' = runCalls + 1
    /\ pc' = "host_build"
    /\ UNCHANGED <<build, host, closure, phase, plugins, setupSet,
                   runResult, exit, diag>>

\* the host builds the application and creates the configured windows,
\* or fails to (no windowing system, ..) and run returns the error
HostBuild ==
    /\ pc = "host_build"
    /\ \/ /\ open' = confWindows
          /\ title' = [w \in confWindows |-> defaultTitle]
          /\ content' = [w \in confWindows |-> DEFAULT_CONTENT]
          /\ pc' = "host_ready"
          /\ UNCHANGED runResult
       \/ /\ runResult' = "err"
          /\ pc' = "run_returned"
          /\ UNCHANGED host
    /\ UNCHANGED <<build, closure, phase, plugins, setupSet, runCalls, exit, diag>>

\* the host invokes the registered closure (main.rs:10)
HostInvokeSetup ==
    /\ pc = "host_ready"
    /\ setupSet
    /\ setupCalls' = setupCalls + 1
    /\ pc' = "setup_lookup"
    /\ UNCHANGED <<build, host, process, phase, plugins, setupSet,
                   step, url, calls, setupResult>>

\* main.rs:11  if let Some(window) = app.get_webview_window("main")
SetupLookup ==
    /\ pc = "setup_lookup"
    /\ LET found == GetWebviewWindow(open, MAIN_LABEL) IN
        /\ calls' = Append(calls, Call("get_webview_window", found # {}, <<>>))
        /\ IF found # {}
           THEN pc' = "setup_body" /\ step' = 1
           ELSE pc' = "setup_tail" /\ step' = step
    /\ UNCHANGED <<build, host, process, phase, plugins, setupSet,
                   url, setupCalls, setupResult>>

\* where the closure is after statement `step` ended with `ok`, error `e`
AfterStatement(ok, e) ==
    LET n == Question(step, ok) IN
    IF n = 0
    THEN pc' = "setup_returned" /\ setupResult' = e /\ step' = step
    ELSE IF n > Len(SetupOrder)
    THEN pc' = "setup_tail" /\ setupResult' = setupResult /\ step' = n
    ELSE pc' = pc /\ setupResult' = setupResult /\ step' = n

\* the window the `if let` bound
Window == CHOOSE w \in GetWebviewWindow(open, MAIN_LABEL) : TRUE

\* Url::parse of each literal a build can carry, computed once
ParsedLiteral == [l \in UrlLiterals |-> UrlParse(l)]

\* main.rs:12  let url = Url::parse("https://sya-os.vercel.app")?;
SetupParse ==
    /\ pc = "setup_body"
    /\ SetupOrder[step] = "parse"
    /\ LET r == ParsedLiteral[urlLiteral] IN
        /\ url' = r
        /\ calls' = Append(calls, Call("parse", r.ok, <<>>))
        /\ AfterStatement(r.ok, r.err)
    /\ UNCHANGED <<build, host, process, phase, plugins, setupSet, setupCalls>>

\* main.rs:13  window.set_title("")?;
SetupSetTitle ==
    /\ pc = "setup_body"
    /\ SetupOrder[step] = "set_title"
    /\ \E ok \in BOOLEAN :
        /\ title' = IF ok THEN SetTitle(title, Window, EMPTY_TITLE) ELSE title
        /\ calls' = Append(calls, Call("set_title", ok, <<>>))
        /\ AfterStatement(ok, "set_title")
    /\ UNCHANGED <<build, open, content, process, phase, plugins, setupSet,
                   url, setupCalls>>

\* main.rs:14  window.navigate(url)?;
SetupNavigate ==
    /\ pc = "setup_body"
    /\ SetupOrder[step] = "navigate"
    /\ \E ok \in BOOLEAN :
        /\ content' = IF ok THEN Navigate(content, Window, url) ELSE content
        /\ calls' = Append(calls, Call("navigate", ok, url.text))
        /\ AfterStatement(ok, "navigate")
    /\ UNCHANGED <<build, open, title, process, phase, plugins, setupSet,
                   url, setupCalls>>

\* main.rs:16  Ok(())
SetupReturnOk ==
    /\ pc = "setup_tail"
    /\ setupResult' = "ok"
    /\ pc' = "setup_returned"
    /\ UNCHANGED <<build, host, process, phase, plugins, setupSet,
                   step, url, calls, setupCalls>>

\* the closure returned Ok: the host goes on to its event loop
HostSetupOk ==
    /\ pc = "setup_returned"
    /\ setupResult = "ok"
    /\ phase' = "SetupComplete"
    /\ pc' = "host_enter"
    /\ UNCHANGED <<build, host, closure, process, plugins, setupSet>>

\* the closure returned Err: the host aborts start-up, either panicking
\* itself or returning the error from run
HostSetupErr ==
    /\ pc = "setup_returned"
    /\ setupResult \notin {"none", "ok"}
    /\ \/ /\ exit' = "panic"
          /\ diag' = SETUP_PANIC_MSG
          /\ phase' = "Terminated"
          /\ pc' = "dead"
          /\ UNCHANGED runResult
       \/ /\ runResult' = "err"
          /\ pc' = "run_returned"
          /\ UNCHANGED <<exit, diag, phase>>
    /\ UNCHANGED <<build, host, closure, plugins, setupSet, runCalls>>

\* the event loop starts dispatching events
EnterLoop ==
    /\ pc = "host_enter"
    /\ phase' = "Running"
    /\ pc' = "loop"
    /\ UNCHANGED <<build, host, closure, process, plugins, setupSet>>

\* the user closes a window
CloseWindow(w) ==
    /\ pc = "loop"
    /\ w \in open
    /\ open' = open \ {w}
    /\ UNCHANGED <<build, title, content, closure, process, phase, plugins,
                   setupSet, pc>>

\* the last window is gone: the event loop ends and run returns Ok
LoopExit ==
    /\ pc = "loop"
    /\ confWindows # {}
    /\ open = {}
    /\ runResult' = "ok"
    /\ pc' = "run_returned"
    /\ UNCHANGED <<build, host, closure, phase, plugins, setupSet,
                   runCalls, exit, diag>>

\* main.rs:21-22  .expect("error while running tauri application"); }
ExpectRun ==
    /\ pc = "run_returned"
    /\ LET to == Expect(runResult) IN
        /\ pc' = to
        /\ exit' = IF to = "dead" THEN "panic" ELSE IF to = "done" THEN "ok" ELSE exit
        /\ diag' = IF to = "dead" THEN EXPECT_MSG ELSE diag
        /\ phase' = IF to \in {"dead", "done"} THEN "Terminated" ELSE phase
    /\ UNCHANGED <<build, host, closure, plugins, setupSet, runCalls, runResult>>

Next ==
    \/ BuilderDefault
    \/ Plugin
    \/ RegisterSetup
    \/ RunCall
    \/ HostBuild
    \/ HostInvokeSetup
    \/ SetupLookup
    \/ SetupParse
    \/ SetupSetTitle
    \/ SetupNavigate
    \/ SetupReturnOk
    \/ HostSetupOk
    \/ HostSetupErr
    \/ EnterLoop
    \/ \E w \in Labels : CloseWindow(w)
    \/ LoopExit
    \/ ExpectRun

Spec == Init /\ [][Next]_vars

\* the steps the process itself takes (everything but the user's)
ProgramStep ==
    \/ BuilderDefault \/ Plugin \/ RegisterSetup \/ RunCall \/ HostBuild
    \/ HostInvokeSetup \/ SetupLookup \/ SetupParse \/ SetupSetTitle
    \/ SetupNavigate \/ SetupReturnOk \/ HostSetupOk \/ HostSetupErr
    \/ EnterLoop \/ LoopExit \/ ExpectRun

\* the process is sequential and is never suspended for ever
FairSpec == Spec /\ WF_vars(ProgramStep)

-----------------------------------------------------------------------------
(* Vocabulary of the properties *)

CallsOf(op) == { i \in DOMAIN calls : calls[i].op = op }
OkCallsOf(op) == { i \in CallsOf(op) : calls[i].ok }
FailedCallsOf(op) == { i \in CallsOf(op) : ~calls[i].ok }

MainConfigured == MAIN_LABEL \in confWindows
SetupEntered == setupCalls > 0
SetupReturned == setupResult # "none"
SetupFailed == setupResult \notin {"none", "ok"}
Terminal == pc \in {"dead", "done"}

\* the text Url::parse makes of the shipped literal: the literal and a root path
APP_URL_NORMALISED == APP_URL \o <<"/">>

PhaseRank(p) ==
    CASE p = "Uninitialized" -> 0
      [] p = "Configured" -> 1
      [] p = "SetupComplete" -> 2
      [] p = "Running" -> 3
      [] p = "Terminated" -> 4

-----------------------------------------------------------------------------
\* C1: when a window "main" exists and the setup closure has returned Ok,
\* the title of "main" is the empty string, and it is the empty string in
\* every state in which the application is Running.
C1_TitleEmptyAfterSetup ==
    (MainConfigured /\ (setupResult = "ok" \/ phase = "Running"))
        => title[MAIN_LABEL] = ""

C1_Witness ==
    /\ MainConfigured
    /\ setupResult = "ok"
    /\ phase = "Running"
    /\ defaultTitle # ""
    /\ OkCallsOf("set_title") # {}

\* C2 as stated: with the shipped literal, the target handed to navigate is
\* the literal itself, character for character.
C2_TargetIsLiteral ==
    \A i \in CallsOf("navigate") :
        urlLiteral = APP_URL => calls[i].target = APP_URL

\* C2 amended: the target handed to navigate is the Url that Url::parse made
\* of the literal, whose text for the shipped literal is the literal followed
\* by the root path "/"; navigate is called at most once, only on "main", so
\* no other target is ever issued.
C2_TargetIsParsedUrl ==
    /\ \A i \in CallsOf("navigate") :
        /\ url.ok
        /\ calls[i].target = url.text
        /\ urlLiteral = APP_URL => calls[i].target = APP_URL_NORMALISED
    /\ Cardinality(CallsOf("navigate")) <= 1
    /\ \A w \in DOMAIN content :
        /\ content[w] # DEFAULT_CONTENT
              => w = MAIN_LABEL /\ OkCallsOf("navigate") # {}
                               /\ content[w] = url.text
        /\ (w = MAIN_LABEL /\ OkCallsOf("navigate") # {} /\ urlLiteral = APP_URL)
              => content[w] = APP_URL_NORMALISED

C2_Witness ==
    /\ urlLiteral = APP_URL
    /\ OkCallsOf("navigate") # {}
    /\ content[MAIN_LABEL] = APP_URL_NORMALISED
    /\ setupResult = "ok"

\* what holds once the lookup has found no window "main"
C3_NoMainState ==
    (~MainConfigured /\ SetupEntered /\ pc # "setup_lookup") =>
        /\ calls = <<Call("get_webview_window", FALSE, <<>>)>>
        /\ url = NoUrl
        /\ \A w \in DOMAIN title : title[w] = defaultTitle
        /\ \A w \in DOMAIN content : content[w] = DEFAULT_CONTENT
        /\ setupResult \in {"none", "ok"}
        /\ (pc # "setup_tail" => setupResult = "ok")
        /\ (phase \in {"Configured", "SetupComplete"} => exit = "none")
        /\ (phase = "Terminated" => exit = "ok")

\* C3: when no window "main" exists, the closure only looks the window up:
\* it parses nothing, changes no title, navigates nowhere, returns Ok, no
\* panic happens before the event loop, and the application goes on to
\* Running.
C3_NoMainIsNoOp ==
    /\ []C3_NoMainState
    /\ (~MainConfigured /\ SetupEntered /\ phase = "Configured")
          ~> (phase = "Running")

C3_Witness ==
    /\ ~MainConfigured
    /\ confWindows # {}
    /\ calls = <<Call("get_webview_window", FALSE, <<>>)>>
    /\ setupResult = "ok"
    /\ phase = "Running"

\* the failed fallible calls of the closure, and what holds once one failed
AnyFailed ==
    FailedCallsOf("parse") \cup FailedCallsOf("set_title")
        \cup FailedCallsOf("navigate")

ErrorOf(c) == IF c.op = "parse" THEN UrlParse(urlLiteral).err ELSE c.op

C4_FailedState ==
    AnyFailed # {} =>
        /\ Cardinality(AnyFailed) = 1
        /\ \A i \in AnyFailed : i = Len(calls) /\ setupResult = ErrorOf(calls[i])
        /\ SetupFailed
        /\ pc \in {"setup_returned", "run_returned", "dead"}
        /\ phase \in {"Configured", "Terminated"}
        /\ exit # "ok"
        /\ (phase = "Terminated" <=> exit = "panic")
        /\ (exit = "panic" => diag \in {EXPECT_MSG, SETUP_PANIC_MSG})

\* C4: when a fallible statement of the closure fails (Url::parse, set_title,
\* navigate), the closure returns that error, the application never is
\* Running, the process never ends normally, and it ends in a panic.
C4_SetupFailureIsFatal ==
    /\ []C4_FailedState
    /\ [](SetupFailed => AnyFailed # {})
    /\ (AnyFailed # {}) ~> (exit = "panic")

C4_Witness ==
    /\ FailedCallsOf("navigate") # {}
    /\ setupResult = "navigate"
    /\ exit = "panic"

\* run is called once, and what holds once it has returned an error
C5_RunErrState ==
    /\ runCalls <= 1
    /\ runResult = "err" =>
        /\ pc \in {"run_returned", "dead"}
        /\ exit # "ok"
        /\ (pc = "dead" => exit = "panic" /\ diag = EXPECT_MSG
                            /\ phase = "Terminated")

\* C5: when run returns an error, the very next step of the process is the
\* panic of expect with its message; the process never goes on past the run
\* call in a state that is not failed; run is called at most once.
C5_RunErrorIsFatal ==
    /\ []C5_RunErrState
    /\ [][(runResult = "err" /\ pc = "run_returned")
            => (pc' = "dead" /\ exit' = "panic" /\ diag' = EXPECT_MSG
                /\ runCalls' = runCalls)]_vars
    /\ (runResult = "err") ~> (exit = "panic")

C5_Witness ==
    /\ runResult = "err"
    /\ setupCalls = 0
    /\ exit = "panic"
    /\ diag = EXPECT_MSG

\* the operations the closure has called on or for the window, in order
BodyOps == [i \in 1..(Len(calls) - 1) |-> calls[i + 1].op]

IsPrefix(s, t) == Len(s) <= Len(t) /\ \A i \in DOMAIN s : s[i] = t[i]

\* C6 as stated: every URL parse is preceded by the title-set call.
C6_TitleBeforeParse ==
    \A i \in CallsOf("parse") : \E j \in CallsOf("set_title") : j < i

\* C6 amended: when "main" is present the closure's steps are, in this
\* order, (a) parse the fixed URL, (b) set the title to the empty string,
\* (c) navigate; the parse happens before the title-set in every execution.
C6_ParseTitleNavigate ==
    /\ calls # <<>> => calls[1].op = "get_webview_window"
    /\ IsPrefix(BodyOps, <<"parse", "set_title", "navigate">>)
    /\ \A j \in CallsOf("set_title") : \E i \in OkCallsOf("parse") : i < j
    /\ (MainConfigured /\ setupResult = "ok")
          => BodyOps = <<"parse", "set_title", "navigate">>

C6_Witness ==
    /\ BodyOps = <<"parse", "set_title", "navigate">>
    /\ setupResult = "ok"

\* C7: the lifecycle Uninitialized -> Configured -> SetupComplete -> Running
\* -> Terminated only moves forward: no step moves the phase to an earlier
\* one or re-enters one, Running is entered only from SetupComplete, and
\* nothing changes once the phase is Terminated.
C7_ForwardOnly ==
    [][ /\ PhaseRank(phase') >= PhaseRank(phase)
        /\ (phase' = "Configured" /\ phase # phase') => phase = "Uninitialized"
        /\ (phase' = "SetupComplete" /\ phase # phase') => phase = "Configured"
        /\ (phase' = "Running" /\ phase # phase') => phase = "SetupComplete"
        /\ phase = "Terminated" => UNCHANGED vars
        /\ (setupCalls' <= 1 /\ runCalls' <= 1) ]_vars

C7_Witness ==
    /\ phase = "Terminated"
    /\ exit = "ok"
    /\ setupResult = "ok"
    /\ runResult = "ok"

\* C8 as stated: every run of the process executes the closure body exactly
\* once.
C8_SetupExactlyOnce == Terminal => setupCalls = 1

\* C8 amended: nothing is retried: the closure body is executed at most
\* once, and exactly once unless run fails before the host invokes it; the
\* window lookup, the URL parse, set_title and navigate are each attempted
\* at most once, whether they succeed or fail.
C8_NothingRetried ==
    /\ setupCalls <= 1
    /\ \A op \in {"get_webview_window", "parse", "set_title", "navigate"} :
          Cardinality(CallsOf(op)) <= 1
    /\ (calls # <<>> \/ SetupReturned) => setupCalls = 1
    /\ (Terminal /\ setupCalls = 0) =>
          (runResult = "err" /\ exit = "panic" /\ calls = <<>>)
    /\ (phase \in {"SetupComplete", "Running"} \/ exit = "ok") => setupCalls = 1

C8_Witness ==
    /\ Terminal
    /\ setupCalls = 1
    /\ FailedCallsOf("set_title") # {}
    /\ Cardinality(CallsOf("set_title")) = 1

\* C9: when parsing the URL fails, the closure returns the parse error
\* before any window operation: set_title is never called, the title is
\* the configured one, and no navigation is issued.
C9_ParseFailureTouchesNothing ==
    FailedCallsOf("parse") # {} =>
        /\ setupResult = UrlParse(urlLiteral).err
        /\ CallsOf("set_title") = {}
        /\ CallsOf("navigate") = {}
        /\ \A w \in DOMAIN title : title[w] = defaultTitle
        /\ \A w \in DOMAIN content : content[w] = DEFAULT_CONTENT

C9_Witness ==
    /\ FailedCallsOf("parse") # {}
    /\ setupResult = "EmptyHost"
    /\ defaultTitle # ""
    /\ Terminal

\* C10: navigate is called only after Url::parse and set_title have both
\* succeeded in the same invocation; when set_title fails navigate is never
\* called and the window keeps its default content; a window showing the
\* remote URL has had its title set.
C10_NavigateOnlyAfterTitle ==
    /\ \A i \in CallsOf("navigate") :
        /\ \E j \in OkCallsOf("parse") : j < i
        /\ \E k \in OkCallsOf("set_title") : k < i
    /\ FailedCallsOf("set_title") # {} =>
        /\ CallsOf("navigate") = {}
        /\ \A w \in DOMAIN content : content[w] = DEFAULT_CONTENT
    /\ \A w \in DOMAIN content :
        content[w] # DEFAULT_CONTENT =>
            /\ OkCallsOf("set_title") # {}
            /\ title[w] = ""

C10_Witness ==
    /\ FailedCallsOf("set_title") # {}
    /\ CallsOf("navigate") = {}
    /\ content[MAIN_LABEL] = DEFAULT_CONTENT
    /\ Terminal

=============================================================================
